---- MODULE Spec2Model ----
(***************************************************************************)
(* Model of AKUDENTAL/coco_instances_to_yolo_instances.py:                 *)
(* create_yolo_datasets_for_all_folds, the conversion of one COCO-style    *)
(* annotation set and one fold-split manifest into five YOLO dataset       *)
(* trees.                                                                  *)
(*                                                                         *)
(* Representation.                                                         *)
(*  - A JSON record is a TLA+ record with a field `keys`, the set of keys  *)
(*    the JSON object holds; rec["k"] of the code raises KeyError when     *)
(*    "k" is not in rec.keys.                                              *)
(*  - A file name is [stem, ext]: the text before its last suffix and the  *)
(*    suffix, so that "a.jpg" and "a.png" are two names with one stem.     *)
(*  - A label line is the very string the code writes.                     *)
(*  - A fold's output directory is [exists, images, labels, yaml, other]:  *)
(*    images maps <<split, name>> to the source file copied there, labels  *)
(*    maps <<split, name>> to the sequence of lines of the file            *)
(*    ("\n".join), yaml is the manifest (a sequence of length 0 or 1) and  *)
(*    other the files a previous run or a user left there.                 *)
(***************************************************************************)
EXTENDS Integers, Sequences, FiniteSets, TLC

VARIABLES
    coco_data,                 \* the annotation set: [images, annotations, categories]
    split_info,                \* the split manifest: fold name -> <<[name, files], ...>>
    source_files,              \* the file names present in source_images_dir
    images_info,               \* line 32, in dict (insertion) order
    annotations_by_image_id,   \* lines 33-38
    class_names_ordered,       \* line 40
    class_name_to_id,          \* line 41
    coco_cat_id_to_yolo_id,    \* lines 42-45
    pc,                        \* "load" | "fold" | "image" | "done" | "error"
    i,                         \* the fold index of line 48
    s,                         \* the position in fold_splits.items() (line 68)
    k,                         \* the position in image_files (line 70)
    run,                       \* how many times the script has been started
    tree,                      \* fold index -> the fold's output directory
    writes,                    \* the files written by the current run
    err                        \* the exception that ended the run, "" if none

vars == <<coco_data, split_info, source_files, images_info,
          annotations_by_image_id, class_names_ordered, class_name_to_id,
          coco_cat_id_to_yolo_id, pc, i, s, k, run, tree, writes, err>>

inputs == <<coco_data, split_info, source_files>>
derived == <<images_info, annotations_by_image_id, class_names_ordered,
             class_name_to_id, coco_cat_id_to_yolo_id>>

(***************************************************************************)
(* Bounds and program constants.                                           *)
(***************************************************************************)
NumFolds == 5
Scale == 1000000
MaxCats == 3
MaxRing == 3
MaxRuns == 2
MaxMissing == 1

Folds == 0 .. (NumFolds - 1)

\* fold_name = f"fold_{i}" (line 49)
FoldName(f) == "fold_" \o ToString(f)

\* output_base_path = base_path / f"AKUDENTAL_YOLO_{fold_name.upper()}" (line 50)
OutputBasePath(f) == "AKUDENTAL_YOLO_FOLD_" \o ToString(f)

(***************************************************************************)
(* Strings are compared by code point (sorted, line 40).  NameUniverse     *)
(* lists the class names of the model in that order: an upper-case letter  *)
(* sorts before every lower-case one.                                      *)
(***************************************************************************)
NameUniverse == <<"Crown", "cavity", "crown">>
Names == {NameUniverse[n] : n \in 1 .. Len(NameUniverse)}
Rank(name) == CHOOSE n \in 1 .. Len(NameUniverse) : NameUniverse[n] = name
NameLess(a, b) == Rank(a) < Rank(b)

Has(rec, key) == key \in rec.keys

FN(stem, ext) == [stem |-> stem, ext |-> ext]

\* Path(image_filename).stem + ".txt" (line 99)
LabelFilename(image_filename) == FN(image_filename.stem, "txt")

Range(seq) == {seq[n] : n \in 1 .. Len(seq)}

(***************************************************************************)
(* Class Mapper, lines 40-45.                                              *)
(***************************************************************************)
RECURSIVE Insert(_, _)
Insert(sorted, name) ==
    IF sorted = <<>> THEN <<name>>
    ELSE IF NameLess(name, Head(sorted)) THEN <<name>> \o sorted
    ELSE <<Head(sorted)>> \o Insert(Tail(sorted), name)

RECURSIVE SortedNames(_)
SortedNames(names) ==
    IF names = <<>> THEN <<>>
    ELSE Insert(SortedNames(Tail(names)), Head(names))

\* the names in input order, as if line 40 did not sort
ClassNamesUnsorted(categories) ==
    [n \in 1 .. Len(categories) |-> categories[n].name]

\* sorted([cat['name'] for cat in coco_data['categories']]) (line 40)
ClassNamesOrdered(categories) ==
    SortedNames([n \in 1 .. Len(categories) |-> categories[n].name])

\* {name: i for i, name in enumerate(class_names_ordered)} (line 41): a name
\* that occurs several times keeps the index of its last occurrence.
LastIndexOf(ordered, name) ==
    CHOOSE n \in 1 .. Len(ordered) :
        /\ ordered[n] = name
        /\ \A m \in (n + 1) .. Len(ordered) : ordered[m] # name

\* as if line 41 numbered the distinct names
ClassNameToIdDistinct(ordered) ==
    [name \in Range(ordered) |->
        Cardinality({b \in Range(ordered) : NameLess(b, name)})]

ClassNameToId(ordered) ==
    [name \in Range(ordered) |-> LastIndexOf(ordered, name) - 1]

\* {cat['id']: class_name_to_id[cat['name']] for cat in ...} (lines 42-45):
\* an id that occurs several times keeps the value of its last record.
LastCatWithId(categories, id) ==
    CHOOSE n \in 1 .. Len(categories) :
        /\ categories[n].id = id
        /\ \A m \in (n + 1) .. Len(categories) : categories[m].id # id

CocoCatIdToYoloId(categories, name_to_id) ==
    [id \in {categories[n].id : n \in 1 .. Len(categories)} |->
        name_to_id[categories[LastCatWithId(categories, id)].name]]

(***************************************************************************)
(* Annotation Loader, lines 32-38.                                         *)
(***************************************************************************)
LastWithId(images, id) ==
    CHOOSE n \in 1 .. Len(images) :
        /\ images[n].id = id
        /\ \A m \in (n + 1) .. Len(images) : images[m].id # id

\* {img['id']: img for img in coco_data['images']} (line 32) as the sequence
\* of its values in dict order: a key keeps the place of its first
\* insertion and the value of its last.
RECURSIVE DictOrder(_, _)
DictOrder(images, n) ==
    IF n > Len(images) THEN <<>>
    ELSE (IF \E m \in 1 .. (n - 1) : images[m].id = images[n].id
          THEN <<>>
          ELSE <<images[LastWithId(images, images[n].id)]>>)
         \o DictOrder(images, n + 1)

ImagesInfo(images) == DictOrder(images, 1)

RECURSIVE Filter(_, _)
Filter(annotations, img_id) ==
    IF annotations = <<>> THEN <<>>
    ELSE (IF Head(annotations).image_id = img_id
          THEN <<Head(annotations)>> ELSE <<>>)
         \o Filter(Tail(annotations), img_id)

\* lines 33-38
AnnotationsByImageId(annotations) ==
    [img_id \in {annotations[n].image_id : n \in 1 .. Len(annotations)} |->
        Filter(annotations, img_id)]

\* The subscripts of lines 32, 35, 40 and 43: the only keys the loading
\* step reads.
LoadKeyError(data) ==
    \/ \E n \in 1 .. Len(data.images) : ~Has(data.images[n], "id")
    \/ \E n \in 1 .. Len(data.annotations) :
          ~Has(data.annotations[n], "image_id")
    \/ \E n \in 1 .. Len(data.categories) :
          ~Has(data.categories[n], "name") \/ ~Has(data.categories[n], "id")

(***************************************************************************)
(* Label Encoder, lines 86-97.                                             *)
(***************************************************************************)
Abs(x) == IF x < 0 THEN -x ELSE x

\* |num / den| in units of 10^-6, rounded to nearest as "{:.6f}" rounds
\* (line 96).  An exact tie needs den to be a multiple of 128 or of 5^7,
\* which no width or height of the model is; there the digit printed
\* depends on the binary value of the quotient.
Round6(num, den) ==
    LET a == Abs(num) * Scale
        q == a \div den
        r == a % den
    IN  IF 2 * r < den THEN q
        ELSE IF 2 * r > den THEN q + 1
        ELSE IF q % 2 = 0 THEN q ELSE q + 1

Pad6(n) ==
    IF n < 10 THEN "00000" \o ToString(n)
    ELSE IF n < 100 THEN "0000" \o ToString(n)
    ELSE IF n < 1000 THEN "000" \o ToString(n)
    ELSE IF n < 10000 THEN "00" \o ToString(n)
    ELSE IF n < 100000 THEN "0" \o ToString(n)
    ELSE ToString(n)

\* f"{p:.6f}" for p = num / den (line 96)
Fmt6(num, den) ==
    LET m == Round6(num, den)
    IN  (IF num < 0 THEN "-" ELSE "") \o ToString(m \div Scale) \o "."
        \o Pad6(m % Scale)

\* as if line 93 divided x by the height and y by the width
DivisorSwapped(n, img_width, img_height) ==
    IF (n - 1) % 2 = 0 THEN img_height ELSE img_width

\* img_width if i % 2 == 0 else img_height (line 93); i = n - 1
Divisor(n, img_width, img_height) ==
    IF (n - 1) % 2 = 0 THEN img_width ELSE img_height

\* lines 92-95, each point kept as <<coord, divisor>>
NormalizedPoints(segmentation, img_width, img_height) ==
    [n \in 1 .. Len(segmentation) |->
        <<segmentation[n], Divisor(n, img_width, img_height)>>]

RECURSIVE Join(_)
Join(strs) ==
    IF strs = <<>> THEN ""
    ELSE IF Len(strs) = 1 THEN strs[1]
    ELSE strs[1] \o " " \o Join(Tail(strs))

\* " ".join([f"{p:.6f}" for p in normalized_points]) (line 96)
PointsStr(points) ==
    Join([n \in 1 .. Len(points) |-> Fmt6(points[n][1], points[n][2])])

\* f"{yolo_class_id} {points_str}" (line 97)
YoloLine(yolo_class_id, segmentation, img_width, img_height) ==
    ToString(yolo_class_id) \o " "
    \o PointsStr(NormalizedPoints(segmentation, img_width, img_height))

\* The exception lines 89-95 raise on one annotation, "" if none.
AnnError(ann, img_width, img_height, cat_map) ==
    IF ~Has(ann, "category_id") THEN "KeyError"
    ELSE IF ann.category_id \notin DOMAIN cat_map THEN ""
    ELSE IF ~Has(ann, "segmentation") THEN "KeyError"
    ELSE IF ann.segmentation = <<>> THEN "IndexError"
    ELSE IF \E n \in 1 .. Len(ann.segmentation[1]) :
                Divisor(n, img_width, img_height) = 0
         THEN "ZeroDivisionError"
    ELSE ""

\* if ann['category_id'] not in coco_cat_id_to_yolo_id: continue (line 89)
Skipped(ann, cat_map) == ann.category_id \notin DOMAIN cat_map

\* lines 88-97: [err, lines]
RECURSIVE Encode(_, _, _, _)
Encode(anns, img_width, img_height, cat_map) ==
    IF anns = <<>> THEN [err |-> "", lines |-> <<>>]
    ELSE LET ann == Head(anns)
             e == AnnError(ann, img_width, img_height, cat_map)
             rest == Encode(Tail(anns), img_width, img_height, cat_map)
         IN  IF e # "" THEN [err |-> e, lines |-> <<>>]
             ELSE IF Skipped(ann, cat_map) THEN rest
             ELSE IF rest.err # "" THEN rest
             ELSE [err |-> "",
                   lines |-> <<YoloLine(cat_map[ann.category_id],
                                        ann.segmentation[1],
                                        img_width, img_height)>>
                             \o rest.lines]

\* lines 86-97 for one image
YoloAnnotations(image_id, by_image_id, img_width, img_height, cat_map) ==
    IF image_id \in DOMAIN by_image_id
    THEN Encode(by_image_id[image_id], img_width, img_height, cat_map)
    ELSE [err |-> "", lines |-> <<>>]

(***************************************************************************)
(* Fold Materializer, lines 48-102.                                        *)
(***************************************************************************)
SplitDirs == {"train", "val", "test"}

NoFiles == [p \in {} |-> 0]

\* an output directory that does not exist
NoDir == [exists |-> FALSE, images |-> NoFiles, labels |-> NoFiles,
          yaml |-> <<>>, other |-> {}]

\* lines 55-61: rmtree if present, then the six empty subdirectories
FreshDir == [exists |-> TRUE, images |-> NoFiles, labels |-> NoFiles,
             yaml |-> <<>>, other |-> {}]

\* split_info.get(fold_name) (line 63): <<>> stands for None as well as for
\* an empty mapping, both of which line 64 takes for absent.
FoldSplits(info, f) ==
    IF FoldName(f) \in DOMAIN info THEN info[FoldName(f)] ELSE <<>>

\* next((i_id for i_id, i_info in images_info.items()
\*       if i_info['file_name'] == image_filename), None) (line 72):
\* [err, idx], idx = 0 for None
RECURSIVE FindImage(_, _, _)
FindImage(info, image_filename, n) ==
    IF n > Len(info) THEN [err |-> "", idx |-> 0]
    ELSE IF ~Has(info[n], "file_name") THEN [err |-> "KeyError", idx |-> 0]
    ELSE IF info[n].file_name = image_filename THEN [err |-> "", idx |-> n]
    ELSE FindImage(info, image_filename, n + 1)

WriteEvent(kind, f, split_name, image_filename, dest, lines) ==
    [kind |-> kind, fold |-> f, split |-> split_name, file |-> image_filename,
     dest |-> dest, lines |-> lines]

\* shutil.copy(source_image_path, dest_image_path) (line 79)
CopyImage(dir, split_name, image_filename) ==
    [dir EXCEPT !.images = (<<split_name, image_filename>> :> image_filename) @@ @]

\* as if no file were written for an image without label lines
WriteLabelUnlessEmpty(dir, split_name, image_filename, lines) ==
    IF lines = <<>> THEN dir
    ELSE [dir EXCEPT !.labels =
             (<<split_name, LabelFilename(image_filename)>> :> lines) @@ @]

\* lines 99-102
WriteLabel(dir, split_name, image_filename, lines) ==
    [dir EXCEPT !.labels =
        (<<split_name, LabelFilename(image_filename)>> :> lines) @@ @]

SourceExistsAlways(image_filename) == TRUE

\* source_image_path.exists() (line 78)
SourceExists(image_filename) == image_filename \in source_files

\* lines 70-102 for one entry of a split: [err, dir, events]
ProcessEntry(dir, f, split_name, image_filename, info, by_image_id, cat_map) ==
    LET found == FindImage(info, image_filename, 1)
        same == [err |-> "", dir |-> dir, events |-> {}]
    IN  IF found.err # "" THEN [same EXCEPT !.err = found.err]
        ELSE IF found.idx = 0 THEN same
        ELSE IF ~SourceExists(image_filename) THEN same
        ELSE IF split_name \notin SplitDirs
             THEN [same EXCEPT !.err = "FileNotFoundError"]
        ELSE
        LET img_info == info[found.idx]
            copied == CopyImage(dir, split_name, image_filename)
            copy_ev == WriteEvent("image", f, split_name, image_filename,
                                  image_filename, <<>>)
        IN  IF ~Has(img_info, "width") \/ ~Has(img_info, "height")
            THEN [err |-> "KeyError", dir |-> copied, events |-> {copy_ev}]
            ELSE
            LET enc == YoloAnnotations(img_info.id, by_image_id,
                                       img_info.width, img_info.height, cat_map)
            IN  IF enc.err # ""
                THEN [err |-> enc.err, dir |-> copied, events |-> {copy_ev}]
                ELSE [err |-> "",
                      dir |-> WriteLabel(copied, split_name, image_filename,
                                         enc.lines),
                      events |-> {copy_ev,
                                  WriteEvent("label", f, split_name,
                                             image_filename,
                                             LabelFilename(image_filename),
                                             enc.lines)}]

(***************************************************************************)
(* Manifest Writer, lines 104-118.                                         *)
(***************************************************************************)
\* as if line 107 named the first fold's directory in every manifest
YamlContentFirstFold(f, ordered) ==
    [path |-> OutputBasePath(0), train |-> "images/train",
     val |-> "images/val", test |-> "images/test",
     nc |-> Len(ordered), names |-> ordered]

YamlContent(f, ordered) ==
    [path |-> OutputBasePath(f), train |-> "images/train",
     val |-> "images/val", test |-> "images/test",
     nc |-> Len(ordered), names |-> ordered]

YamlName == FN("dataset", "yaml")
NoName == FN("", "")

(***************************************************************************)
(* The run.                                                                *)
(***************************************************************************)
fold_splits == FoldSplits(split_info, i)

\* lines 26-45
Load ==
    /\ pc = "load"
    /\ IF LoadKeyError(coco_data)
       THEN /\ pc' = "error"
            /\ err' = "KeyError"
            /\ UNCHANGED derived
       ELSE /\ images_info' = ImagesInfo(coco_data.images)
            /\ annotations_by_image_id' =
                   AnnotationsByImageId(coco_data.annotations)
            /\ class_names_ordered' = ClassNamesOrdered(coco_data.categories)
            /\ class_name_to_id' =
                   ClassNameToId(ClassNamesOrdered(coco_data.categories))
            /\ coco_cat_id_to_yolo_id' =
                   CocoCatIdToYoloId(coco_data.categories,
                       ClassNameToId(ClassNamesOrdered(coco_data.categories)))
            /\ pc' = "fold"
            /\ err' = ""
    /\ UNCHANGED <<inputs, i, s, k, run, tree, writes>>

\* as if lines 55-56 were missing: mkdir(exist_ok=True) keeps what is there
RecreateKeeping(dir) == [dir EXCEPT !.exists = TRUE]

\* lines 55-61 applied to the fold's directory
Recreate(dir) == FreshDir

\* as if line 63 read split_info[fold_name]: a missing fold raises KeyError
PrepareFoldSubscript ==
    /\ pc = "fold"
    /\ i < NumFolds
    /\ tree' = [tree EXCEPT ![i] = Recreate(@)]
    /\ IF FoldName(i) \notin DOMAIN split_info
       THEN /\ i' = i
            /\ pc' = "error"
            /\ err' = "KeyError"
       ELSE /\ i' = IF fold_splits = <<>> THEN i + 1 ELSE i
            /\ pc' = IF fold_splits = <<>> THEN "fold" ELSE "image"
            /\ err' = err
    /\ s' = 1
    /\ k' = 1
    /\ UNCHANGED <<inputs, derived, run, writes>>

\* lines 48-66: the head of one iteration of the fold loop
PrepareFold ==
    /\ pc = "fold"
    /\ i < NumFolds
    /\ tree' = [tree EXCEPT ![i] = Recreate(@)]
    /\ IF fold_splits = <<>>
       THEN /\ i' = i + 1
            /\ pc' = "fold"
       ELSE /\ i' = i
            /\ pc' = "image"
    /\ s' = 1
    /\ k' = 1
    /\ UNCHANGED <<inputs, derived, run, writes, err>>

\* lines 70-102: one iteration of the image loop
ProcessImage ==
    /\ pc = "image"
    /\ s <= Len(fold_splits)
    /\ k <= Len(fold_splits[s].files)
    /\ LET r == ProcessEntry(tree[i], i, fold_splits[s].name,
                             fold_splits[s].files[k], images_info,
                             annotations_by_image_id, coco_cat_id_to_yolo_id)
       IN  /\ tree' = [tree EXCEPT ![i] = r.dir]
           /\ writes' = writes \cup r.events
           /\ err' = r.err
           /\ IF r.err # ""
              THEN pc' = "error" /\ k' = k
              ELSE pc' = "image" /\ k' = k + 1
    /\ UNCHANGED <<inputs, derived, i, s, run>>

\* lines 68-70: a split's list is exhausted, the next split begins
EndSplit ==
    /\ pc = "image"
    /\ s <= Len(fold_splits)
    /\ k > Len(fold_splits[s].files)
    /\ s' = s + 1
    /\ k' = 1
    /\ UNCHANGED <<inputs, derived, pc, i, run, tree, writes, err>>

\* lines 104-119
WriteManifest ==
    /\ pc = "image"
    /\ s > Len(fold_splits)
    /\ tree' = [tree EXCEPT ![i].yaml = <<YamlContent(i, class_names_ordered)>>]
    /\ writes' = writes \cup
          {WriteEvent("yaml", i, "", NoName, YamlName, <<>>)}
    /\ i' = i + 1
    /\ pc' = "fold"
    /\ s' = 1
    /\ k' = 1
    /\ UNCHANGED <<inputs, derived, run, err>>

\* lines 121-122
Finish ==
    /\ pc = "fold"
    /\ i = NumFolds
    /\ pc' = "done"
    /\ UNCHANGED <<inputs, derived, i, s, k, run, tree, writes, err>>

\* lines 125-133: the script is started again on the same dataset root,
\* with the output of the previous run still on disk
Rerun ==
    /\ pc \in {"done", "error"}
    /\ run < MaxRuns
    /\ run' = run + 1
    /\ pc' = "load"
    /\ i' = 0
    /\ s' = 1
    /\ k' = 1
    /\ writes' = {}
    /\ err' = ""
    /\ images_info' = <<>>
    /\ annotations_by_image_id' = <<>>
    /\ class_names_ordered' = <<>>
    /\ class_name_to_id' = <<>>
    /\ coco_cat_id_to_yolo_id' = <<>>
    /\ UNCHANGED <<inputs, tree>>

Next ==
    \/ Load
    \/ PrepareFold
    \/ ProcessImage
    \/ EndSplit
    \/ WriteManifest
    \/ Finish
    \/ Rerun

(***************************************************************************)
(* Inputs.                                                                 *)
(***************************************************************************)
Img(id, file_name, width, height) ==
    [keys |-> {"id", "file_name", "width", "height"}, id |-> id,
     file_name |-> file_name, width |-> width, height |-> height]

Ann(image_id, category_id, segmentation) ==
    [keys |-> {"image_id", "category_id", "segmentation"},
     image_id |-> image_id, category_id |-> category_id,
     segmentation |-> segmentation]

Cat(id, name) == [keys |-> {"id", "name"}, id |-> id, name |-> name]

Split(name, files) == [name |-> name, files |-> files]

aJpg == FN("a", "jpg")
aPng == FN("a", "png")
bJpg == FN("b", "jpg")
cJpg == FN("c", "jpg")
ghostJpg == FN("ghost", "jpg")

ExampleRing == <<0, 0, 100, 0, 100, 100, 0, 100>>

BaseImages ==
    <<Img(1, aJpg, 200, 100), Img(2, aPng, 100, 100), Img(3, bJpg, 3, 3),
      Img(4, cJpg, 50, 50)>>

\* category 5 is in no category table; image 3 has no annotation
BaseAnnotations ==
    <<Ann(1, 7, <<ExampleRing>>), Ann(1, 5, <<<<1, 1>>>>),
      Ann(1, 2, <<<<50, 50, 250, -10>>, <<1, 2, 3, 4>>>>),
      Ann(2, 2, <<<<10, 20, 30, 40>>>>), Ann(4, 7, <<<<1, 2, 3>>>>)>>

BaseCategories == <<Cat(7, "crown"), Cat(2, "cavity")>>

BaseData ==
    [images |-> BaseImages, annotations |-> BaseAnnotations,
     categories |-> BaseCategories]

FoldA ==
    <<Split("train", <<aJpg, aPng>>), Split("val", <<ghostJpg, bJpg>>),
      Split("test", <<>>)>>

FoldB ==
    <<Split("train", <<cJpg, aJpg>>), Split("val", <<aPng>>),
      Split("test", <<bJpg>>)>>

FoldNames == {FoldName(f) : f \in Folds}

\* every manifest that gives each fold FoldA, FoldB or nothing
SplitInfos ==
    UNION {[D -> {FoldA, FoldB}] : D \in SUBSET FoldNames}

AllSources == {aJpg, aPng, bJpg, cJpg}
SourceSets == {AllSources, AllSources \ {cJpg}, AllSources \ {aPng, bJpg}}

\* what an earlier run on other inputs, or a user, left in a fold's directory
StaleDir ==
    [exists |-> TRUE,
     images |-> (<<"train", FN("old", "jpg")>> :> FN("old", "jpg")),
     labels |-> (<<"train", FN("a", "txt")>> :> <<"9 0.100000 0.100000">>)
                @@ (<<"val", FN("old", "txt")>> :> <<>>),
     yaml |-> <<YamlContent(9, <<"stale">>)>>,
     other |-> {FN("notes", "md")}]

PriorTrees == {[f \in Folds |-> NoDir], [f \in Folds |-> StaleDir]}

Start(data, info, files, prior) ==
    /\ coco_data = data
    /\ split_info = info
    /\ source_files = files
    /\ tree = prior
    /\ images_info = <<>>
    /\ annotations_by_image_id = <<>>
    /\ class_names_ordered = <<>>
    /\ class_name_to_id = <<>>
    /\ coco_cat_id_to_yolo_id = <<>>
    /\ pc = "load"
    /\ i = 0
    /\ s = 1
    /\ k = 1
    /\ run = 1
    /\ writes = {}
    /\ err = ""

\* well-formed records; the split manifest, the source directory and the
\* previous content of the output directories vary
Init ==
    \E info \in SplitInfos, files \in SourceSets, prior \in PriorTrees :
        Start(BaseData, info, files, prior)

Spec == Init /\ [][Next]_vars

\* --- the category table varies ---
CatIds == {2, 7}
CatRecords == {Cat(id, name) : id \in CatIds, name \in Names}
CatSeqs == UNION {[1 .. n -> CatRecords] : n \in 0 .. MaxCats}

MapperInfo ==
    (FoldName(0) :> <<Split("train", <<aJpg>>), Split("val", <<bJpg>>)>>)

InitMapper ==
    \E cats \in CatSeqs :
        Start([BaseData EXCEPT !.categories = cats], MapperInfo, AllSources,
              [f \in Folds |-> NoDir])

SpecMapper == InitMapper /\ [][Next]_vars

\* --- the image's size and the polygon vary ---
Widths == {0, 3, 200}
Heights == {0, 3, 100}
Coords == {-1, 0, 2, 250}
Rings == UNION {[1 .. n -> Coords] : n \in 0 .. MaxRing} \cup {ExampleRing}

EncoderInfo == (FoldName(0) :> <<Split("train", <<aJpg>>)>>)

InitEncoder ==
    \E w \in Widths, h \in Heights, ring \in Rings :
        Start([images |-> <<Img(1, aJpg, w, h)>>,
               annotations |-> <<Ann(1, 7, <<ring>>), Ann(1, 5, <<ring>>),
                                 Ann(1, 2, <<<<>>, ring>>)>>,
               categories |-> BaseCategories],
              EncoderInfo, AllSources, [f \in Folds |-> NoDir])

SpecEncoder == InitEncoder /\ [][Next]_vars

\* --- records lack keys ---
LoaderData ==
    [images |-> <<Img(1, aJpg, 200, 100), Img(3, bJpg, 3, 3)>>,
     annotations |-> <<Ann(1, 7, <<ExampleRing>>), Ann(9, 2, <<<<1, 1>>>>)>>,
     categories |-> BaseCategories]

Slots ==
    {<<"images", n, key>> : n \in 1 .. 2,
                            key \in {"id", "file_name", "width", "height"}}
    \cup {<<"annotations", n, key>> :
              n \in 1 .. 2, key \in {"image_id", "category_id", "segmentation"}}
    \cup {<<"categories", n, key>> : n \in 1 .. 2, key \in {"id", "name"}}

Missings == {M \in SUBSET Slots : Cardinality(M) <= MaxMissing}

DropKeys(recs, kind, M) ==
    [n \in 1 .. Len(recs) |->
        [recs[n] EXCEPT !.keys = @ \ {key \in @ : <<kind, n, key>> \in M}]]

Without(data, M) ==
    [images |-> DropKeys(data.images, "images", M),
     annotations |-> DropKeys(data.annotations, "annotations", M),
     categories |-> DropKeys(data.categories, "categories", M)]

LoaderInfos ==
    {[D \in {} |-> <<>>],
     (FoldName(0) :> <<Split("train", <<aJpg>>)>>),
     (FoldName(1) :> <<Split("train", <<bJpg, aJpg>>)>>)
         @@ (FoldName(3) :> <<>>)}

InitLoader ==
    \E M \in Missings, info \in LoaderInfos :
        Start(Without(LoaderData, M), info, AllSources, [f \in Folds |-> NoDir])

SpecLoader == InitLoader /\ [][Next]_vars

(***************************************************************************)
(* Vocabulary of the properties, read from the inputs alone.               *)
(***************************************************************************)
Categories == coco_data.categories
CategoryNames == {Categories[n].name : n \in 1 .. Len(Categories)}
CategoryIds == {Categories[n].id : n \in 1 .. Len(Categories)}

HasImage(file) ==
    \E n \in 1 .. Len(coco_data.images) : coco_data.images[n].file_name = file

\* the Image record a file name resolves to
ImageNamed(file) ==
    coco_data.images[CHOOSE n \in 1 .. Len(coco_data.images) :
        /\ coco_data.images[n].file_name = file
        /\ \A m \in 1 .. (n - 1) : coco_data.images[m].file_name # file]

Resolves(file) == HasImage(file) /\ file \in source_files

\* the annotations of the image whose category is in the category table
MappedAnnotations(file) ==
    SelectSeq(coco_data.annotations,
              LAMBDA a : /\ a.image_id = ImageNamed(file).id
                         /\ a.category_id \in CategoryIds)

Present(f) == FoldName(f) \in DOMAIN split_info /\ split_info[FoldName(f)] # <<>>

AtEntry ==
    /\ pc = "image"
    /\ s <= Len(fold_splits)
    /\ k <= Len(fold_splits[s].files)

Entry == fold_splits[s].files[k]

LabelEvents == {e \in writes : e.kind = "label"}

(***************************************************************************)
(* C1, as stated: after loading, for every sequence of Category records    *)
(* the names get the consecutive integers from 0 in ascending order, and   *)
(* reordering or renumbering the records gives the same table.             *)
(***************************************************************************)
Renumberings == [CatIds -> {2, 7, 11}]

Rearranged(cats, p, r) ==
    [n \in 1 .. Len(cats) |-> Cat(r[cats[p[n]].id], cats[p[n]].name)]

SameTableHowever ==
    \A p \in Permutations(1 .. Len(Categories)), r \in Renumberings :
        ClassNameToId(ClassNamesOrdered(Rearranged(Categories, p, r)))
            = class_name_to_id

Loaded == pc \notin {"load", "error"}

C1_ConsecutiveForAll ==
    Loaded =>
        /\ DOMAIN class_name_to_id = CategoryNames
        /\ \A a \in CategoryNames :
              class_name_to_id[a]
                  = Cardinality({b \in CategoryNames : NameLess(b, a)})
        /\ (pc = "fold" /\ i = 0) => SameTableHowever

(***************************************************************************)
(* C1, amended: each name gets the index of its last occurrence in the     *)
(* ascending list of all records' names, that is the number of records     *)
(* whose name is not greater, minus one; when no two records share a name  *)
(* these are the consecutive integers from 0 in ascending order; and       *)
(* reordering or renumbering the records gives the same table.             *)
(***************************************************************************)
NamesDistinct ==
    \A n, m \in 1 .. Len(Categories) :
        Categories[n].name = Categories[m].name => n = m

C1_ClassTable ==
    Loaded =>
        /\ DOMAIN class_name_to_id = CategoryNames
        /\ \A a \in CategoryNames :
              class_name_to_id[a]
                  = Cardinality({n \in 1 .. Len(Categories) :
                                    ~NameLess(a, Categories[n].name)}) - 1
        /\ NamesDistinct =>
              \A a \in CategoryNames :
                  class_name_to_id[a]
                      = Cardinality({b \in CategoryNames : NameLess(b, a)})
        /\ (pc = "fold" /\ i = 0) => SameTableHowever

C1_Witness ==
    /\ pc = "fold"
    /\ i = 0
    /\ Categories = <<Cat(7, "crown"), Cat(2, "cavity"), Cat(2, "Crown")>>
    /\ class_name_to_id = [a \in Names |-> Rank(a) - 1]

(***************************************************************************)
(* C2: on an image of positive width and height, every label line is the   *)
(* class index followed by one value per element of the first ring, in     *)
(* order: the element at even position (counted from 0) over the width,    *)
(* the one at odd position over the height, rounded to the nearest         *)
(* millionth and not clamped.                                              *)
(***************************************************************************)
ExampleLine ==
    "1 0.000000 0.000000 0.500000 0.000000 0.500000 1.000000 0.000000 1.000000"

Over(n, img) == IF n % 2 = 1 THEN img.width ELSE img.height

NearestMillionth(x, d) ==
    LET m == Round6(x, d)
    IN  /\ 2 * Abs(m * d - Abs(x) * Scale) <= d
        /\ x > d => m > Scale
        /\ x < 0 => Fmt6(x, d) = "-" \o Fmt6(-x, d)

C2_Normalized ==
    \A e \in LabelEvents :
        LET img == ImageNamed(e.file)
            anns == MappedAnnotations(e.file)
        IN  (img.width > 0 /\ img.height > 0) =>
            /\ Len(e.lines) = Len(anns)
            /\ \A j \in 1 .. Len(anns) :
                  LET ring == anns[j].segmentation[1]
                      vals == [n \in 1 .. Len(ring) |->
                                  Fmt6(ring[n], Over(n, img))]
                  IN  /\ e.lines[j] =
                             ToString(coco_cat_id_to_yolo_id[anns[j].category_id])
                             \o " " \o Join(vals)
                      /\ \A n \in 1 .. Len(ring) :
                            NearestMillionth(ring[n], Over(n, img))
                      /\ (anns[j].category_id = 7 /\ ring = ExampleRing
                             /\ img.width = 200 /\ img.height = 100)
                            => e.lines[j] = ExampleLine

C2_Witness ==
    /\ pc = "done"
    /\ <<"train", FN("a", "txt")>> \in DOMAIN tree[0].labels
    /\ tree[0].labels[<<"train", FN("a", "txt")>>][1] = ExampleLine

(***************************************************************************)
(* C3: an entry whose file name matches no Image record, or whose source   *)
(* file does not exist, writes nothing and raises nothing, the loop goes   *)
(* on to the next entry, and the run still processes every entry that      *)
(* resolves.                                                               *)
(***************************************************************************)
EveryResolvingEntryWritten ==
    \A f \in Folds :
        \A sp \in 1 .. Len(FoldSplits(split_info, f)) :
            LET split == FoldSplits(split_info, f)[sp]
            IN  \A n \in 1 .. Len(split.files) :
                    Resolves(split.files[n]) =>
                        \E e \in LabelEvents :
                            /\ e.fold = f
                            /\ e.split = split.name
                            /\ e.file = split.files[n]

C3_SilentSkip ==
    /\ [][(AtEntry /\ ~Resolves(Entry)) =>
              /\ tree' = tree
              /\ writes' = writes
              /\ err' = ""
              /\ pc' = "image"
              /\ <<i', s', k'>> = <<i, s, k + 1>>]_vars
    /\ [](pc = "done" => EveryResolvingEntryWritten)

\* fold_0 is FoldA: ghost.jpg has no Image record and b.jpg follows it
C3_Witness ==
    /\ pc = "done"
    /\ FoldSplits(split_info, 0) = FoldA
    /\ cJpg \notin source_files
    /\ \A e \in writes : e.file # ghostJpg
    /\ \E e \in LabelEvents : e.fold = 0 /\ e.split = "val" /\ e.file = bJpg

(***************************************************************************)
(* C4: processing an entry that resolves writes <stem>.txt in the split's  *)
(* labels directory with exactly one line for each annotation of the image *)
(* whose category_id is in the category table, in input order; the file    *)
(* is written, empty, when there is no such annotation.                    *)
(***************************************************************************)
ExpectedLines(file) ==
    LET img == ImageNamed(file)
        anns == MappedAnnotations(file)
    IN  [j \in 1 .. Len(anns) |->
            YoloLine(coco_cat_id_to_yolo_id[anns[j].category_id],
                     anns[j].segmentation[1], img.width, img.height)]

C4_LabelFile ==
    [][(AtEntry /\ Resolves(Entry)) =>
          LET path == <<fold_splits[s].name, FN(Entry.stem, "txt")>>
          IN  /\ path \in DOMAIN tree'[i].labels
              /\ tree'[i].labels[path] = ExpectedLines(Entry)
              /\ Len(tree'[i].labels[path])
                     = Cardinality({n \in 1 .. Len(coco_data.annotations) :
                           /\ coco_data.annotations[n].image_id
                                  = ImageNamed(Entry).id
                           /\ coco_data.annotations[n].category_id
                                  \in CategoryIds})]_vars

\* fold_0 is FoldB: a.jpg has three annotations, one of category 5, and
\* b.jpg has none
C4_Witness ==
    /\ pc = "done"
    /\ FoldSplits(split_info, 0) = FoldB
    /\ <<"test", FN("b", "txt")>> \in DOMAIN tree[0].labels
    /\ tree[0].labels[<<"test", FN("b", "txt")>>] = <<>>
    /\ Len(tree[0].labels[<<"train", FN("a", "txt")>>]) = 2

(***************************************************************************)
(* C5, as stated: after a completed run every one of the five fold         *)
(* directories holds a manifest written during that run.                   *)
(***************************************************************************)
ManifestOf(f) ==
    /\ tree[f].yaml # <<>>
    /\ \E e \in writes : e.kind = "yaml" /\ e.fold = f
    /\ LET y == tree[f].yaml[1]
       IN  /\ y.path = "AKUDENTAL_YOLO_FOLD_" \o ToString(f)
           /\ <<y.train, y.val, y.test>>
                  = <<"images/train", "images/val", "images/test">>
           /\ y.nc = Len(Categories)
           /\ y.names = class_names_ordered

C5_ManifestInEveryFold ==
    pc = "done" => \A f \in Folds : ManifestOf(f)

(***************************************************************************)
(* C5, amended: after a completed run every fold directory whose fold has  *)
(* a non-empty entry in the split manifest holds a manifest written during *)
(* that run, with the output path, the train/val/test subpaths, nc and the *)
(* index->name table in the Class Mapper's order; the directory of a fold  *)
(* without such an entry holds no manifest.                                *)
(***************************************************************************)
C5_ManifestInPresentFolds ==
    pc = "done" =>
        \A f \in Folds :
            IF Present(f) THEN ManifestOf(f)
            ELSE /\ tree[f].yaml = <<>>
                 /\ \A e \in writes : e.fold # f

C5_Witness ==
    /\ pc = "done"
    /\ run = 2
    /\ ~Present(1) /\ tree[1].exists /\ tree[1].yaml = <<>>
    /\ Present(2) /\ tree[2].yaml # <<>> /\ tree[2].yaml[1].nc = 2

(***************************************************************************)
(* C6: a fold absent from the split manifest does not abort the run, gets  *)
(* no image and no label file, and every later fold that is present is     *)
(* materialised from its own entries alone.                                *)
(***************************************************************************)
RECURSIVE ApplyFiles(_, _, _, _)
ApplyFiles(dir, f, split, n) ==
    IF n > Len(split.files) THEN dir
    ELSE ApplyFiles(ProcessEntry(dir, f, split.name, split.files[n],
                                 images_info, annotations_by_image_id,
                                 coco_cat_id_to_yolo_id).dir,
                    f, split, n + 1)

RECURSIVE ApplySplits(_, _, _, _)
ApplySplits(dir, f, splits, n) ==
    IF n > Len(splits) THEN dir
    ELSE ApplySplits(ApplyFiles(dir, f, splits[n], 1), f, splits, n + 1)

\* what the fold's own entries, the annotation set and the source
\* directory make of an empty directory
MaterializedFrom(f) ==
    IF Present(f)
    THEN [ApplySplits(FreshDir, f, split_info[FoldName(f)], 1)
             EXCEPT !.yaml = <<YamlContent(f, class_names_ordered)>>]
    ELSE FreshDir

Absent(f) == FoldName(f) \notin DOMAIN split_info

C6_MissingFoldRecoverable ==
    /\ [][(pc = "fold" /\ i < NumFolds /\ Absent(i)) =>
              /\ pc' = "fold"
              /\ err' = ""
              /\ i' = i + 1
              /\ writes' = writes
              /\ tree'[i].images = NoFiles
              /\ tree'[i].labels = NoFiles]_vars
    /\ [](\A f \in Folds : Absent(f) => \A e \in writes : e.fold # f)
    /\ [](pc = "done" =>
            \A f \in Folds :
                /\ Absent(f) => tree[f].images = NoFiles
                                /\ tree[f].labels = NoFiles
                /\ (Present(f) /\ \E g \in 0 .. (f - 1) : Absent(g))
                      => tree[f] = MaterializedFrom(f))

C6_Witness ==
    /\ pc = "done"
    /\ Absent(1)
    /\ Present(2)
    /\ tree[1].images = NoFiles
    /\ DOMAIN tree[2].images # {}
    /\ DOMAIN tree[2].labels # {}

(***************************************************************************)
(* C7: whatever a fold's output directory held before, after a completed   *)
(* run it holds what the inputs determine and nothing else, so a second    *)
(* run on the same inputs leaves the same trees.                           *)
(***************************************************************************)
NothingStale(dir) ==
    /\ dir.other = {}
    /\ \A p \in DOMAIN dir.images : Resolves(p[2])
    /\ \A p \in DOMAIN dir.labels :
          \E file \in source_files : p[2] = FN(file.stem, "txt")
    /\ dir.yaml # StaleDir.yaml

C7_IdempotentOverwrite ==
    pc = "done" =>
        \A f \in Folds :
            /\ tree[f].exists
            /\ tree[f] = MaterializedFrom(f)
            /\ NothingStale(tree[f])

C7_Witness ==
    /\ pc = "done"
    /\ run = 2
    /\ \E f \in Folds : Present(f) /\ DOMAIN tree[f].labels # {}
    /\ \E f \in Folds : Absent(f)

(***************************************************************************)
(* C8: within one run no two (fold, split, image file name) tuples write   *)
(* the same output path.                                                   *)
(***************************************************************************)
C8_ExclusivePaths ==
    \A e1, e2 \in writes :
        (/\ e1.kind = e2.kind
         /\ e1.fold = e2.fold
         /\ e1.split = e2.split
         /\ e1.dest = e2.dest)
        => e1.file = e2.file

(***************************************************************************)
(* C9: when a record of the annotation set lacks a required key, the run   *)
(* fails in the loading step, before any fold's output directory is        *)
(* removed or created, and never completes.                                *)
(***************************************************************************)
Incomplete ==
    \/ \E n \in 1 .. Len(coco_data.images) :
          coco_data.images[n].keys # {"id", "file_name", "width", "height"}
    \/ \E n \in 1 .. Len(coco_data.annotations) :
          coco_data.annotations[n].keys
              # {"image_id", "category_id", "segmentation"}
    \/ \E n \in 1 .. Len(Categories) : Categories[n].keys # {"id", "name"}

C9_LoaderRejects ==
    Incomplete =>
        /\ pc # "done"
        /\ \A f \in Folds : ~tree[f].exists

(***************************************************************************)
(* C10: in every fold whose manifest has been written, the class index     *)
(* that starts a label line is below nc, and the manifest's name at that   *)
(* index is the name of a category whose id is the annotation's            *)
(* category_id; also when several category ids share one name.             *)
(***************************************************************************)
C10_LabelsMatchManifest ==
    \A f \in Folds :
        (\E w \in writes : w.kind = "yaml" /\ w.fold = f) =>
        \A e \in LabelEvents :
            e.fold = f =>
            LET y == tree[f].yaml[1]
                img == ImageNamed(e.file)
                anns == MappedAnnotations(e.file)
            IN  /\ Len(e.lines) = Len(anns)
                /\ \A j \in 1 .. Len(anns) :
                      \E c \in 0 .. (y.nc - 1) :
                          /\ e.lines[j] =
                                 ToString(c) \o " "
                                 \o PointsStr(NormalizedPoints(
                                        anns[j].segmentation[1],
                                        img.width, img.height))
                          /\ \E n \in 1 .. Len(Categories) :
                                /\ Categories[n].id = anns[j].category_id
                                /\ Categories[n].name = y.names[c + 1]

C10_Witness ==
    /\ pc = "done"
    /\ Categories = <<Cat(7, "crown"), Cat(2, "crown"), Cat(7, "cavity")>>
    /\ tree[0].yaml # <<>>
    /\ tree[0].yaml[1].names = <<"cavity", "crown", "crown">>
    /\ Len(tree[0].labels[<<"train", FN("a", "txt")>>]) = 2

====
